---- MODULE Spec2Model ----
(***************************************************************************)
(* Model of bot.py: a Discord bot that keeps a queue of problems in a      *)
(* SQLite file (table problems, table meta with the key skip_offset),      *)
(* imports problems.json at start-up and at every daily tick, posts one    *)
(* problem a day and lets an operator redirect the pick with "!skip n".    *)
(*                                                                         *)
(* Texts are sequences of one-character strings, so that str(), strip(),   *)
(* isdigit() and int() are modelled by what they do.  The column added_at  *)
(* is a timestamp no query reads and is left out of the rows.              *)
(*                                                                         *)
(* Every store call of bot.py is synchronous; a handler awaits only when   *)
(* it fetches a channel (before its store section) or sends (after it), so *)
(* each handler's store section is one atomic action of Spec.  AsyncSpec   *)
(* runs the same two handlers statement by statement under the rule that a *)
(* coroutine gives up the event loop only at an await; the properties of   *)
(* the selector's cycle and of the store sections are checked there.       *)
(*                                                                         *)
(* problems.json is taken within the documented interface: missing, not    *)
(* decodable, empty, or a list of records that each have a "latex" field.  *)
(***************************************************************************)
EXTENDS Integers, Sequences, FiniteSets, TLC

\* ------------------------------------------------------------------ bounds
\* longest list problems.json holds
MaxItems == 2
\* most rows the table is let to grow to
MaxProblems == 3
\* largest index a call of get_problem_by_index is tried with
MaxIdx == 4

VARIABLES
    problems,      \* table problems: a set of rows [id, latex, source, used]
    skip_offset,   \* table meta, key skip_offset
    running,       \* the process has started (main ran)
    out,           \* what the last handler sent (and to whom) or returned
    day,           \* parity of the number of daily ticks so far
    pending,       \* n of the !skip accepted since the last tick, 0 if none
    skipped,       \* some !skip has been accepted since the table was created
    selector,      \* frame of the running daily_problem(): position and locals
    handler        \* frame of the running on_message(): position and locals

vars == <<problems, skip_offset, running, out, day, pending, skipped, selector, handler>>

\* the frames of the two coroutines; in Spec each handler is one step and the
\* frames stay idle, in AsyncSpec a handler advances statement by statement
frames == <<selector, handler>>

\* ------------------------------------------------------------------ texts
Whitespace == {" "}

RECURSIVE lstrip(_)
lstrip(s) ==
    IF s # <<>> /\ Head(s) \in Whitespace THEN lstrip(Tail(s)) ELSE s

RECURSIVE rstrip(_)
rstrip(s) ==
    IF s # <<>> /\ s[Len(s)] \in Whitespace
    THEN rstrip(SubSeq(s, 1, Len(s) - 1))
    ELSE s

\* str.strip()
strip(s) == rstrip(lstrip(s))

AsciiDigits == <<"0", "1", "2", "3", "4", "5", "6", "7", "8", "9">>

DigitValue(c) == (CHOOSE i \in 1..10 : AsciiDigits[i] = c) - 1

RECURSIVE Decimal(_)
\* the decimal numeral of a natural number
Decimal(n) ==
    IF n < 10 THEN <<AsciiDigits[n + 1]>>
    ELSE Decimal(n \div 10) \o <<AsciiDigits[(n % 10) + 1]>>

\* str.startswith(prefix)
startswith(s, prefix) ==
    Len(s) >= Len(prefix) /\ SubSeq(s, 1, Len(prefix)) = prefix

\* characters with the Unicode property Digit: the ASCII digits and others
UnicodeDigits == {AsciiDigits[i] : i \in 1..10} \cup {"sup2"}

\* str.isdigit()
isdigit(s) == s # <<>> /\ \A i \in 1..Len(s) : s[i] \in UnicodeDigits

\* int(s) raises ValueError unless s is a decimal numeral
IntRaises(s) == s = <<>> \/ \E i \in 1..Len(s) : s[i] \notin {AsciiDigits[k] : k \in 1..10}

RECURSIVE int(_)
int(s) ==
    IF s = <<>> THEN 0
    ELSE 10 * int(SubSeq(s, 1, Len(s) - 1)) + DigitValue(s[Len(s)])

\* a JSON value: a string, a number, or the key being absent
JStr(s) == [t |-> "str", v |-> s]
JNum(n) == [t |-> "num", v |-> n]
JAbsent == [t |-> "absent", v |-> 0]

\* str(value)
str(j) == IF j.t = "num" THEN Decimal(j.v) ELSE j.v

\* it.get("source", "")
get_source(it) == IF it.source.t = "absent" THEN JStr(<<>>) ELSE it.source

\* ------------------------------------------------------------------ inputs
RawItems ==
    { [latex |-> JStr(<<" ", "1">>), source |-> JAbsent],
      [latex |-> JNum(1),            source |-> JStr(<<>>)],
      [latex |-> JStr(<<"2">>),      source |-> JAbsent],
      [latex |-> JStr(<<"2">>),      source |-> JStr(<<"s", " ">>)] }

RECURSIVE SeqsUpTo(_, _)
SeqsUpTo(S, n) ==
    IF n = 0 THEN {<<>>}
    ELSE LET shorter == SeqsUpTo(S, n - 1)
         IN  shorter \cup {Append(s, x) : s \in {q \in shorter : Len(q) = n - 1}, x \in S}

FileMissing   == [kind |-> "missing", items |-> <<>>]
FileMalformed == [kind |-> "malformed", items |-> <<>>]
FileList(l)   == [kind |-> "list", items |-> l]

JsonFiles ==
    {FileMissing, FileMalformed} \cup {FileList(l) : l \in SeqsUpTo(RawItems, MaxItems)}

\* message.content.split() of the messages tried; "sup2" stands for the one
\* character U+00B2, which str.isdigit() accepts and int() refuses
SkipCommand == <<"!", "s", "k", "i", "p">>

ArgTokens ==
    {Decimal(n) : n \in 0..(MaxProblems + 1)}
        \cup {<<"0", "2">>, <<"-", "1">>, <<"a">>, <<"sup2">>}

Messages ==
    {<<SkipCommand>>, <<<<"h", "i">>, <<"2">>>>}
        \cup {<<SkipCommand, a>> : a \in ArgTokens}
        \cup {<<SkipCommand, a, <<"1">>>> : a \in {<<"1">>, <<"a">>}}

\* ------------------------------------------------------------------ store
total_problems_count(rows) == Cardinality(rows)

used_problems_count(rows) == Cardinality({r \in rows : r.used = 1})

remaining_problems_count(rows) == Cardinality({r \in rows : r.used = 0})

\* AUTOINCREMENT: one more than the largest id of the table
NextId(rows) ==
    IF rows = {} THEN 1
    ELSE (CHOOSE m \in {r.id : r \in rows} : \A r \in rows : r.id <= m) + 1

\* SELECT COUNT(*) FROM problems WHERE latex = ? AND source = ?
CountMatching(rows, latex, source) ==
    Cardinality({r \in rows : r.latex = latex /\ r.source = source})

\* variant of ImportItem: INSERT OR REPLACE, an existing pair is inserted anew
ImportItem_replace(rows, it) ==
    LET latex  == strip(str(it.latex))
        source == strip(str(get_source(it)))
        others == {r \in rows : ~(r.latex = latex /\ r.source = source)}
    IN  others \cup {[id |-> NextId(rows), latex |-> latex,
                      source |-> source, used |-> 0]}

\* variant of ImportItem: the duplicate query is given the unstripped texts
ImportItem_raw(rows, it) ==
    LET latex  == strip(str(it.latex))
        source == strip(str(get_source(it)))
    IN  IF CountMatching(rows, str(it.latex), str(get_source(it))) # 0
        THEN rows
        ELSE rows \cup {[id |-> NextId(rows), latex |-> latex,
                         source |-> source, used |-> 0]}

\* one pass of the loop of import_json
ImportItem(rows, it) ==
    LET latex  == strip(str(it.latex))
        source == strip(str(get_source(it)))
    IN  IF CountMatching(rows, latex, source) # 0
        THEN rows
        ELSE rows \cup {[id |-> NextId(rows), latex |-> latex,
                         source |-> source, used |-> 0]}

RECURSIVE ImportItems(_, _)
ImportItems(rows, items) ==
    IF items = <<>> THEN rows
    ELSE ImportItems(ImportItem(rows, Head(items)), Tail(items))

\* import_json(JSON_PATH): the table after the import
import_json(rows, file) ==
    IF file.kind = "missing" THEN rows
    ELSE IF file.kind = "malformed" THEN rows
    ELSE IF file.items = <<>> THEN rows
    ELSE ImportItems(rows, file.items)

None == [kind |-> "none"]

RECURSIVE OrderById(_)
\* ORDER BY id ASC
OrderById(rows) ==
    IF rows = {} THEN <<>>
    ELSE LET first == CHOOSE r \in rows : \A q \in rows : r.id <= q.id
         IN  <<first>> \o OrderById(rows \ {first})

\* variant of get_problem_by_index: OFFSET idx instead of OFFSET idx - 1
get_problem_by_index_off(rows, idx) ==
    IF idx <= 0 THEN None
    ELSE LET ordered == OrderById(rows)
         IN  IF idx >= Len(ordered) THEN None
             ELSE [kind |-> "row", pid |-> ordered[idx + 1].id,
                   latex |-> ordered[idx + 1].latex, source |-> ordered[idx + 1].source]

\* get_problem_by_index(idx): (id, latex, source) of a row, or None
get_problem_by_index(rows, idx) ==
    IF idx <= 0 THEN None
    ELSE LET ordered == OrderById(rows)
         IN  IF idx - 1 >= Len(ordered) THEN None
             ELSE [kind |-> "row", pid |-> ordered[idx].id,
                   latex |-> ordered[idx].latex, source |-> ordered[idx].source]

\* variant of mark_used: the flag of the row is flipped instead of set
mark_used_toggle(rows, pid) ==
    {IF r.id = pid THEN [r EXCEPT !.used = 1 - r.used] ELSE r : r \in rows}

\* variant of mark_used: the UPDATE without its WHERE clause
mark_used_all(rows, pid) == {[r EXCEPT !.used = 1] : r \in rows}

\* UPDATE problems SET used = 1 WHERE id = ?
mark_used(rows, pid) ==
    {IF r.id = pid THEN [r EXCEPT !.used = 1] ELSE r : r \in rows}

\* variant of LogicalIndex: the offset is forgotten
LogicalIndex_noskip(rows, skip) == used_problems_count(rows) + 1

\* Indice logico = usados + 1 + skip_offset
LogicalIndex(rows, skip) == used_problems_count(rows) + 1 + skip

\* variant of pick_next_with_skip: an index past the end is clamped to the
\* last row
pick_next_with_skip_clamp(rows, skip) ==
    LET total         == total_problems_count(rows)
        logical_index == IF LogicalIndex(rows, skip) > total THEN total
                         ELSE LogicalIndex(rows, skip)
        result        == get_problem_by_index(rows, logical_index)
    IN  IF result = None
        THEN [picked |-> None, rows |-> rows, skip |-> skip]
        ELSE [picked |-> [kind |-> "picked", logical_index |-> logical_index,
                          latex |-> result.latex, source |-> result.source],
              rows |-> mark_used(rows, result.pid), skip |-> skip]

\* variant of pick_next_with_skip: the offset is reset to 0 once it has been
\* applied to a delivery
pick_next_with_skip_reset(rows, skip) ==
    LET logical_index == LogicalIndex(rows, skip)
        result        == get_problem_by_index(rows, logical_index)
    IN  IF logical_index > total_problems_count(rows)
        THEN [picked |-> None, rows |-> rows, skip |-> skip]
        ELSE IF result = None
        THEN [picked |-> None, rows |-> rows, skip |-> skip]
        ELSE [picked |-> [kind |-> "picked", logical_index |-> logical_index,
                          latex |-> result.latex, source |-> result.source],
              rows |-> mark_used(rows, result.pid), skip |-> 0]

\* pick_next_with_skip(): the pick (or None), the table after it, and the
\* offset after it (it reads skip_offset and never calls set_skip_offset)
pick_next_with_skip(rows, skip) ==
    LET logical_index == LogicalIndex(rows, skip)
        result        == get_problem_by_index(rows, logical_index)
    IN  IF logical_index > total_problems_count(rows)
        THEN [picked |-> None, rows |-> rows, skip |-> skip]
        ELSE IF result = None
        THEN [picked |-> None, rows |-> rows, skip |-> skip]
        ELSE [picked |-> [kind |-> "picked", logical_index |-> logical_index,
                          latex |-> result.latex, source |-> result.source],
              rows |-> mark_used(rows, result.pid), skip |-> skip]

\* ------------------------------------------------------------------ actions
\* no daily_problem() is running; marks counts the mark_used calls of a run
SelectorIdle == [pc |-> "idle", marks |-> 0]

\* no on_message() is between its first and its last store call
HandlerIdle == [pc |-> "idle"]

Init ==
    /\ problems = {}
    /\ skip_offset = 0
    /\ running = FALSE
    /\ out = None
    /\ day = 0
    /\ pending = 0
    /\ skipped = FALSE
    /\ selector = SelectorIdle
    /\ handler = HandlerIdle

\* __main__ (init_db on the existing file, import_json) and on_ready;
\* file is what problems.json holds when it is read
main(file) ==
    \E rows \in {import_json(problems, file)} :
        /\ Cardinality(rows) <= MaxProblems
        /\ problems' = rows
        /\ running' = TRUE
        /\ out' = [to |-> "info", kind |-> "info",
                   total |-> total_problems_count(rows),
                   usados |-> used_problems_count(rows),
                   restantes |-> remaining_problems_count(rows),
                   skip |-> skip_offset,
                   numero_siguiente_logico |-> LogicalIndex(rows, skip_offset)]
        /\ UNCHANGED <<skip_offset, day, pending, skipped>>
        /\ UNCHANGED frames

\* variant of NuevoSkip: the offset counted from usados instead of usados + 1
NuevoSkip_off(n, usados) == n - usados

\* usados + 1 + skip_offset = n  =>  skip_offset = n - (usados + 1)
NuevoSkip(n, usados) == n - (usados + 1)

\* variant of IsBehind: nothing is ever behind
IsBehind_never(nuevo_skip) == FALSE

\* variant of IsBehind: the row delivered last still passes
IsBehind_late(nuevo_skip) == nuevo_skip < 0 - 1

\* nuevo_skip < 0: n is behind the progress
IsBehind(nuevo_skip) == nuevo_skip < 0

\* variant of OutOfRange: the upper limit is not checked
OutOfRange_nomax(n, total) == n <= 0

\* n <= 0 or n > total
OutOfRange(n, total) == n <= 0 \/ n > total

\* on_message(message), message.content.split() = parts
on_message(parts) ==
    /\ running
    /\ UNCHANGED frames
    /\ IF parts = <<>> \/ ~startswith(parts[1], SkipCommand)
       THEN UNCHANGED vars
       ELSE IF Len(parts) # 2 \/ ~isdigit(parts[2])
       THEN /\ out' = [to |-> "invoker", kind |-> "usage"]
            /\ UNCHANGED <<problems, skip_offset, running, day, pending, skipped>>
       ELSE IF IntRaises(parts[2])
       THEN /\ out' = [to |-> "nobody", kind |-> "ValueError"]
            /\ UNCHANGED <<problems, skip_offset, running, day, pending, skipped>>
       ELSE LET n          == int(parts[2])
                total      == total_problems_count(problems)
                usados     == used_problems_count(problems)
                nuevo_skip == NuevoSkip(n, usados)
            IN  IF total = 0
                THEN /\ out' = [to |-> "invoker", kind |-> "no_problems"]
                     /\ UNCHANGED <<problems, skip_offset, running, day, pending, skipped>>
                ELSE IF OutOfRange(n, total)
                THEN /\ out' = [to |-> "invoker", kind |-> "range", total |-> total]
                     /\ UNCHANGED <<problems, skip_offset, running, day, pending, skipped>>
                ELSE IF IsBehind(nuevo_skip)
                THEN /\ out' = [to |-> "invoker", kind |-> "behind", n |-> n, usados |-> usados]
                     /\ UNCHANGED <<problems, skip_offset, running, day, pending, skipped>>
                ELSE /\ skip_offset' = nuevo_skip
                     /\ out' = [to |-> "invoker", kind |-> "configured", n |-> n,
                                usados |-> usados, skip_offset |-> nuevo_skip]
                     /\ pending' = n
                     /\ skipped' = TRUE
                     /\ UNCHANGED <<problems, running, day>>

\* the three messages of a delivery
Delivery(picked) ==
    [to |-> "problems", kind |-> "problem",
     encabezado |-> picked.logical_index,
     mensaje |-> picked.latex,
     fuente_msg |-> IF picked.source # <<>> THEN picked.source
                    ELSE <<"[fuente no especificada]">>]

\* daily_problem(): one firing of the daily loop; file is what problems.json
\* holds when it is read
daily_problem(file) ==
    /\ running
    /\ \E rows \in {import_json(problems, file)} :
       \E pick \in {pick_next_with_skip(rows, skip_offset)} :
        /\ Cardinality(rows) <= MaxProblems
        /\ pending' = 0
        /\ day' = 1 - day
        /\ UNCHANGED <<running, skipped>>
        /\ UNCHANGED frames
        /\ IF total_problems_count(rows) = 0
           THEN /\ out' = [to |-> "problems", kind |-> "no_problems"]
                /\ problems' = rows
                /\ skip_offset' = skip_offset
           ELSE IF remaining_problems_count(rows) = 0
           THEN /\ out' = [to |-> "problems", kind |-> "all_used"]
                /\ problems' = rows
                /\ skip_offset' = skip_offset
           ELSE IF pick.picked = None
           THEN /\ out' = [to |-> "problems", kind |-> "not_available"]
                /\ problems' = pick.rows
                /\ skip_offset' = pick.skip
           ELSE /\ out' = Delivery(pick.picked)
                /\ problems' = pick.rows
                /\ skip_offset' = pick.skip

\* a call of get_problem_by_index(idx): it returns and writes nothing
ByPosition(idx) ==
    /\ running
    /\ out' = get_problem_by_index(problems, idx)
    /\ UNCHANGED <<problems, skip_offset, running, day, pending, skipped>>
    /\ UNCHANGED frames

Next ==
    \/ \E file \in JsonFiles : main(file)
    \/ \E parts \in Messages : on_message(parts)
    \/ \E file \in JsonFiles : daily_problem(file)
    \/ \E idx \in (0 - 1)..MaxIdx : ByPosition(idx)

Spec == Init /\ [][Next]_vars

Tick == \E file \in JsonFiles : daily_problem(file)

\* the first start of the process
Start == ~running /\ \E file \in JsonFiles : main(file)

\* the process starts, and the daily loop fires every day
FairSpec == Spec /\ WF_vars(Start) /\ WF_vars(Tick)

\* ------------------------------------------------------------------ coroutines
\* The same two handlers, statement by statement, on the one cooperative
\* event loop: a coroutine keeps the loop from one await to the next.  The
\* observers pending and skipped belong to Spec and are left alone here.

\* variant of AwaitPoints: the handlers also give up the loop between reading
\* the counts and writing
AwaitPoints_inside == {"fetch", "send", "write", "mark"}

\* the positions at which a coroutine is suspended in an await:
\* fetch_channel (line 279) and channel.send (lines 244-312)
AwaitPoints == {"fetch", "send"}

\* the coroutine at position pc does not hold the event loop
LoopFree(pc) == pc = "idle" \/ pc \in AwaitPoints

\* tasks.loop fires daily_problem(): lines 275-279, up to await fetch_channel;
\* the loop starts a run only when the run before it has returned
tick_fire ==
    /\ running
    /\ selector.pc = "idle"
    /\ LoopFree(handler.pc)
    /\ selector' = [pc |-> "fetch", marks |-> 0]
    /\ day' = 1 - day
    /\ UNCHANGED <<problems, skip_offset, running, out, pending, skipped, handler>>

\* line 282: import_json(JSON_PATH)
tick_import(file) ==
    /\ selector.pc = "fetch"
    /\ LoopFree(handler.pc)
    /\ \E rows \in {import_json(problems, file)} :
        /\ Cardinality(rows) <= MaxProblems
        /\ problems' = rows
    /\ selector' = [selector EXCEPT !.pc = "count"]
    /\ UNCHANGED <<skip_offset, running, out, day, pending, skipped, handler>>

\* lines 284-292: the two early returns
tick_count ==
    /\ selector.pc = "count"
    /\ LoopFree(handler.pc)
    /\ IF total_problems_count(problems) = 0
       THEN /\ out' = [to |-> "problems", kind |-> "no_problems"]
            /\ selector' = [selector EXCEPT !.pc = "send"]
       ELSE IF remaining_problems_count(problems) = 0
       THEN /\ out' = [to |-> "problems", kind |-> "all_used"]
            /\ selector' = [selector EXCEPT !.pc = "send"]
       ELSE /\ out' = out
            /\ selector' = [selector EXCEPT !.pc = "pick"]
    /\ UNCHANGED <<problems, skip_offset, running, day, pending, skipped, handler>>

\* lines 172-184 of pick_next_with_skip: the reads and the selection
tick_read ==
    /\ selector.pc = "pick"
    /\ LoopFree(handler.pc)
    /\ LET logical_index == LogicalIndex(problems, skip_offset)
           result        == get_problem_by_index(problems, logical_index)
       IN  IF logical_index > total_problems_count(problems) \/ result = None
           THEN /\ out' = [to |-> "problems", kind |-> "not_available"]
                /\ selector' = [selector EXCEPT !.pc = "send"]
           ELSE /\ out' = out
                /\ selector' = [pc |-> "mark", marks |-> selector.marks,
                                logical_index |-> logical_index, pid |-> result.pid,
                                latex |-> result.latex, source |-> result.source]
    /\ UNCHANGED <<problems, skip_offset, running, day, pending, skipped, handler>>

\* line 185, mark_used(pid), and lines 299-308
tick_mark ==
    /\ selector.pc = "mark"
    /\ LoopFree(handler.pc)
    /\ problems' = mark_used(problems, selector.pid)
    /\ out' = Delivery([logical_index |-> selector.logical_index,
                        latex |-> selector.latex, source |-> selector.source])
    /\ selector' = [pc |-> "send", marks |-> selector.marks + 1]
    /\ UNCHANGED <<skip_offset, running, day, pending, skipped, handler>>

\* variant of tick_sent: a run that sent a notice is tried again
tick_sent_retry ==
    /\ selector.pc = "send"
    /\ LoopFree(handler.pc)
    /\ selector' = IF out.kind = "problem" THEN SelectorIdle
                   ELSE [pc |-> "fetch", marks |-> selector.marks]
    /\ UNCHANGED <<problems, skip_offset, running, out, day, pending, skipped, handler>>

\* the awaited sends complete and daily_problem() returns
tick_sent ==
    /\ selector.pc = "send"
    /\ LoopFree(handler.pc)
    /\ selector' = SelectorIdle
    /\ UNCHANGED <<problems, skip_offset, running, out, day, pending, skipped, handler>>

\* lines 233-255 of on_message: parsing and the range check
msg_begin(parts) ==
    /\ running
    /\ handler.pc = "idle"
    /\ LoopFree(selector.pc)
    /\ IF parts = <<>> \/ ~startswith(parts[1], SkipCommand)
       THEN UNCHANGED vars
       ELSE /\ UNCHANGED <<problems, skip_offset, running, day, pending, skipped, selector>>
            /\ IF Len(parts) # 2 \/ ~isdigit(parts[2])
               THEN /\ out' = [to |-> "invoker", kind |-> "usage"]
                    /\ handler' = handler
               ELSE IF IntRaises(parts[2])
               THEN /\ out' = [to |-> "nobody", kind |-> "ValueError"]
                    /\ handler' = handler
               ELSE LET n     == int(parts[2])
                        total == total_problems_count(problems)
                    IN  IF total = 0
                        THEN /\ out' = [to |-> "invoker", kind |-> "no_problems"]
                             /\ handler' = handler
                        ELSE IF OutOfRange(n, total)
                        THEN /\ out' = [to |-> "invoker", kind |-> "range", total |-> total]
                             /\ handler' = handler
                        ELSE /\ out' = out
                             /\ handler' = [pc |-> "read", n |-> n]

\* lines 257-260: usados is read and nuevo_skip computed
msg_read ==
    /\ handler.pc = "read"
    /\ LoopFree(selector.pc)
    /\ LET usados == used_problems_count(problems)
       IN  handler' = [pc |-> "write", n |-> handler.n, usados |-> usados,
                       nuevo_skip |-> NuevoSkip(handler.n, usados)]
    /\ UNCHANGED <<problems, skip_offset, running, out, day, pending, skipped, selector>>

\* lines 261-272: the last return, or set_skip_offset(nuevo_skip)
msg_write ==
    /\ handler.pc = "write"
    /\ LoopFree(selector.pc)
    /\ IF IsBehind(handler.nuevo_skip)
       THEN /\ out' = [to |-> "invoker", kind |-> "behind", n |-> handler.n,
                       usados |-> handler.usados]
            /\ skip_offset' = skip_offset
       ELSE /\ skip_offset' = handler.nuevo_skip
            /\ out' = [to |-> "invoker", kind |-> "configured", n |-> handler.n,
                       usados |-> handler.usados, skip_offset |-> handler.nuevo_skip]
    /\ handler' = HandlerIdle
    /\ UNCHANGED <<problems, running, day, pending, skipped, selector>>

AsyncNext ==
    \/ Start
    \/ tick_fire
    \/ \E file \in JsonFiles : tick_import(file)
    \/ tick_count
    \/ tick_read
    \/ tick_mark
    \/ tick_sent
    \/ \E parts \in Messages : msg_begin(parts)
    \/ msg_read
    \/ msg_write

AsyncSpec == Init /\ [][AsyncNext]_vars

\* asyncio runs ready callbacks first in, first out: a coroutine whose await
\* has completed gets the loop after the callbacks queued ahead of it (strong
\* fairness at the two awaits), and a coroutine that holds the loop runs to
\* its next await (weak fairness inside the store sections)
AsyncFairSpec ==
    /\ AsyncSpec
    /\ WF_vars(Start)
    /\ SF_vars(\E file \in JsonFiles : tick_import(file))
    /\ WF_vars(tick_count)
    /\ WF_vars(tick_read)
    /\ WF_vars(tick_mark)
    /\ SF_vars(tick_sent)
    /\ WF_vars(msg_read)
    /\ WF_vars(msg_write)

\* ------------------------------------------------------------------ claims
\* the row at 1-based position n in ascending id order
RowAt(rows, n) == CHOOSE r \in rows : Cardinality({q \in rows : q.id < r.id}) = n - 1

UsedIds(rows) == {r.id : r \in {q \in rows : q.used = 1}}

Ids(rows) == {r.id : r \in rows}

\* a step of the daily tick: the only action that advances the day
TickStep == day' # day

\* a step of the daily tick that sends a problem
Delivers == TickStep /\ out'.kind = "problem"

\* a step of on_message that accepts a !skip: the only one that answers so
AcceptsSkip == day' = day /\ out'.kind = "configured"

\* the notices of a tick that delivers nothing
NoItemNotices == {"no_problems", "all_used", "not_available"}

\* C1: a daily tick never delivers a problem whose used flag was set before
\* the tick.
C1_DeliveredAtMostOnce ==
    [][Delivers => RowAt(problems', out'.encabezado).id \notin UsedIds(problems)]_vars

\* C2: with no !skip accepted, the offset is 0 and the used rows are the first
\* k in id order; a tick then delivers row k+1 labelled #(k+1) and marks it,
\* and once every row is used a tick delivers nothing and, its import adding
\* no row, changes neither the table nor the offset.
C2_InOrderThenNone ==
    /\ [](~skipped =>
            /\ skip_offset = 0
            /\ \A r \in problems :
                  r.used = 1 <=> Cardinality({q \in problems : q.id <= r.id})
                                    <= used_problems_count(problems))
    /\ [][(TickStep /\ ~skipped) =>
            LET k == used_problems_count(problems)
                N == Cardinality(problems')
            IN  IF k < N
                THEN /\ out'.kind = "problem"
                     /\ out'.encabezado = k + 1
                     /\ out'.mensaje = RowAt(problems', k + 1).latex
                     /\ RowAt(problems', k + 1).id \notin UsedIds(problems)
                     /\ UsedIds(problems') = UsedIds(problems) \cup {RowAt(problems', k + 1).id}
                ELSE /\ out'.kind \in {"no_problems", "all_used"}
                     /\ UsedIds(problems') = UsedIds(problems)
                     /\ skip_offset' = skip_offset
                     /\ Cardinality(problems) = N => problems' = problems]_vars

\* C2 witness: three rows were delivered in order and the next tick found
\* nothing left.
C2_Witness ==
    /\ ~skipped
    /\ Cardinality(problems) = 3
    /\ used_problems_count(problems) = 3
    /\ out.kind = "all_used"

\* C3: if only finitely many !skip commands are accepted (the tick firing
\* every day), every row of the table is eventually marked used.
C3_EventuallyDelivered ==
    <>[][~AcceptsSkip]_vars
        => \A i \in 1..MaxProblems : (i \in Ids(problems)) ~> (i \in UsedIds(problems))

\* C4: an accepted !skip n (1 <= n <= total, n >= used + 1) persists the
\* offset n - (used + 1), and the next tick, no other !skip accepted meanwhile,
\* delivers the row at position n in id order, labelled #n, and marks it used.
C4_SkipLandsOnN ==
    [][/\ \A n \in 1..MaxProblems :
            (/\ on_message(<<SkipCommand, Decimal(n)>>)
             /\ n <= Cardinality(problems)
             /\ n >= used_problems_count(problems) + 1)
            => /\ out'.kind = "configured"
               /\ skip_offset' = n - (used_problems_count(problems) + 1)
               /\ pending' = n
       /\ (TickStep /\ pending # 0)
            => /\ out'.kind = "problem"
               /\ out'.encabezado = pending
               /\ out'.mensaje = RowAt(problems', pending).latex
               /\ RowAt(problems', pending).used = 1
               /\ pending <= Cardinality(problems)
               /\ RowAt(problems', pending).id = RowAt(problems, pending).id]_vars

\* C4 witness: with one row used, "!skip 3" was accepted and the tick that
\* followed delivered row 3 as #3.
C4_Witness ==
    /\ out.kind = "problem"
    /\ out.encabezado = 3
    /\ skip_offset = 1
    /\ UsedIds(problems) = {1, 3}

\* C5: "!skip n" with n no greater than the used count is rejected: the offset
\* and every used flag stay as they were.
C5_BehindRejected ==
    [][\A n \in 0..(MaxProblems + 1) :
          (/\ on_message(<<SkipCommand, Decimal(n)>>)
           /\ n <= used_problems_count(problems))
          => /\ out'.kind \in {"behind", "range", "no_problems"}
             /\ skip_offset' = skip_offset
             /\ problems' = problems
             /\ pending' = pending]_vars

\* C5 witness: with two rows used, "!skip 2" was answered "behind".
C5_Witness ==
    /\ out.kind = "behind"
    /\ out.n = 2
    /\ used_problems_count(problems) = 2

\* C6: no two rows share a (latex, source) pair, and importing any list a
\* second time adds no row, repeated entries in the list included.
C6_ImportIdempotent ==
    /\ \A r, q \in problems : (r.latex = q.latex /\ r.source = q.source) => r = q
    /\ \A file \in JsonFiles :
          Cardinality(import_json(import_json(problems, file), file))
              = Cardinality(import_json(problems, file))

\* C6 witness: the three distinct pairs are stored, one of them delivered, and
\* a start-up import has run over them since.
C6_Witness ==
    /\ Cardinality(problems) = 3
    /\ used_problems_count(problems) = 1
    /\ out.kind = "info"
    /\ out.total = 3

\* C7: a tick selects position used + 1 + offset: it delivers exactly when
\* that position is within the table, shows that number in the header, and
\* marks the row at that position.
C7_LogicalIndex ==
    [][TickStep =>
          LET idx == used_problems_count(problems) + 1 + skip_offset
          IN  /\ out'.kind = "problem" <=> idx <= Cardinality(problems')
              /\ out'.kind = "problem" =>
                    /\ out'.encabezado = idx
                    /\ out'.mensaje = RowAt(problems', idx).latex
                    /\ UsedIds(problems') = UsedIds(problems) \cup {RowAt(problems', idx).id}]_vars

\* C7 witness: with one row used and offset 1 the tick delivered #3.
C7_Witness ==
    /\ out.kind = "problem"
    /\ out.encabezado = 3
    /\ skip_offset = 1
    /\ used_problems_count(problems) = 2

\* a decimal numeral
IsNumeral(s) == s # <<>> /\ \A i \in 1..Len(s) : \E d \in 0..9 : s[i] = Decimal(d)[1]

RECURSIVE NumeralValue(_, _)
\* the number a decimal numeral denotes, read from the left; acc is the value
\* of the digits read so far
NumeralValue(s, acc) ==
    IF s = <<>> THEN acc
    ELSE NumeralValue(Tail(s), 10 * acc + (CHOOSE d \in 0..9 : Head(s) = Decimal(d)[1]))

\* the !skip messages C8 is about: wrong argument count, an argument that is
\* no integer, or an integer outside 1..total (any integer when the table is
\* empty)
Malformed(parts) ==
    /\ parts # <<>>
    /\ parts[1] = SkipCommand
    /\ \/ Len(parts) # 2
       \/ ~IsNumeral(parts[2])
       \/ NumeralValue(parts[2], 0) \notin 1..Cardinality(problems)

\* C8: a malformed or out-of-range !skip is answered with a notice to the
\* invoker and changes neither the offset nor the table.
C8_MalformedNoticed ==
    [][\A parts \in Messages :
          (on_message(parts) /\ Malformed(parts))
          => /\ out'.to = "invoker"
             /\ out'.kind \in {"usage", "no_problems", "range"}
             /\ skip_offset' = skip_offset
             /\ problems' = problems]_vars

\* C9: get_problem_by_index(n) is the n-th row in ascending id order, used or
\* not, for 1 <= n <= total and None otherwise; a call leaves the table (so
\* every used flag and count) and the offset as they were.
C9_ByPositionReadOnly ==
    /\ [](\A n \in (0 - 1)..MaxIdx :
            get_problem_by_index(problems, n) =
                IF 1 <= n /\ n <= Cardinality(problems)
                THEN [kind |-> "row", pid |-> RowAt(problems, n).id,
                      latex |-> RowAt(problems, n).latex,
                      source |-> RowAt(problems, n).source]
                ELSE None)
    /\ [][(\E idx \in (0 - 1)..MaxIdx : ByPosition(idx))
            => problems' = problems /\ skip_offset' = skip_offset]_vars

\* C9 witness: a call returned row 2 of three while that row was marked used
\* and row 1 was not.
C9_Witness ==
    /\ out.kind = "row"
    /\ out.pid = 2
    /\ Cardinality(problems) = 3
    /\ UsedIds(problems) = {2}

\* C10: a tick whose position used + 1 + offset is beyond the table (or whose
\* table is empty or all used) sends a no-item notice, sets no used flag and
\* leaves the offset alone.
C10_NothingAvailable ==
    [][TickStep =>
          LET idx    == used_problems_count(problems) + 1 + skip_offset
              unused == Cardinality(problems') - used_problems_count(problems)
          IN  /\ (\/ idx > Cardinality(problems')
                  \/ problems' = {}
                  \/ unused = 0
                  \/ out'.kind \in NoItemNotices)
                 => /\ out'.to = "problems"
                    /\ out'.kind \in NoItemNotices
                    /\ UsedIds(problems') = UsedIds(problems)
                    /\ skip_offset' = skip_offset
              /\ out'.kind = "not_available" <=>
                    (idx > Cardinality(problems') /\ unused > 0)]_vars

\* C10 witness: the offset points past the table while a row is still unused.
C10_Witness ==
    /\ out.kind = "not_available"
    /\ skip_offset = 1
    /\ UsedIds(problems) = {2}
    /\ Cardinality(problems) = 2

\* C11: the offset changes only in a step of on_message that accepts a !skip
\* (to the value it announces); a tick, delivering or not, and a start-up
\* import leave it, so the next tick applies the same offset again.
C11_OffsetOnlyBySkip ==
    [][/\ skip_offset' # skip_offset
            => /\ AcceptsSkip
               /\ skip_offset' = out'.skip_offset
               /\ skip_offset' = out'.n - (used_problems_count(problems) + 1)
       /\ TickStep => skip_offset' = skip_offset
       /\ out'.kind = "info" => skip_offset' = skip_offset
       /\ (TickStep /\ out'.kind = "problem")
            => out'.encabezado = used_problems_count(problems) + 1 + skip_offset']_vars

\* C11 witness: after "!skip 2" (offset 1) two ticks in a row applied the
\* offset: #2, then #3.
C11_Witness ==
    /\ out.kind = "problem"
    /\ out.encabezado = 3
    /\ skip_offset = 1
    /\ pending = 0
    /\ UsedIds(problems) = {2, 3}

\* the row of a table with a given id
RowOf(rows, id) == CHOOSE r \in rows : r.id = id

\* C12: no step deletes a row, changes its texts or clears its used flag; a
\* flag is set only by a tick, and only for the one row at the position the
\* tick delivers; a step of on_message leaves the table as it is; so total and
\* used never decrease, and total = used + remaining in every state.
C12_LifecycleMonotone ==
    /\ [](total_problems_count(problems)
            = used_problems_count(problems) + remaining_problems_count(problems))
    /\ [][/\ Ids(problems) \subseteq Ids(problems')
          /\ \A r \in problems :
                /\ RowOf(problems', r.id).latex = r.latex
                /\ RowOf(problems', r.id).source = r.source
                /\ r.used = 1 => RowOf(problems', r.id).used = 1
          /\ total_problems_count(problems') >= total_problems_count(problems)
          /\ used_problems_count(problems') >= used_problems_count(problems)
          /\ UsedIds(problems') # UsedIds(problems)
                => /\ Delivers
                   /\ UsedIds(problems') \ UsedIds(problems)
                        = {RowAt(problems', out'.encabezado).id}
          /\ (\E parts \in Messages : on_message(parts)) => problems' = problems]_vars

\* C12 witness: a !skip was accepted over a table with rows 2 and 3 used, and
\* the table still holds its three rows with the same flags.
C12_Witness ==
    /\ out.kind = "configured"
    /\ Cardinality(problems) = 3
    /\ UsedIds(problems) = {2, 3}
    /\ remaining_problems_count(problems) = 1

\* the files whose import is a no-op: missing, not decodable, empty list
NoOpFiles == {FileMissing, FileMalformed, FileList(<<>>)}

\* rows2 holds every row of rows as it is and only adds rows of larger id
OnlyAppends(rows, rows2) ==
    /\ rows \subseteq rows2
    /\ \A r \in rows2 \ rows : \A q \in rows : q.id < r.id
    /\ \A n \in 1..Cardinality(rows) : RowAt(rows2, n) = RowAt(rows, n)

\* C15: an import keeps every existing row (flag, texts, position in id
\* order) and only adds rows behind them; a start-up leaves the offset; a
\* tick keeps every existing row at its position with its texts; a missing,
\* undecodable or empty problems.json changes nothing at all.
C15_ImportOnlyAppends ==
    /\ [](\A file \in JsonFiles :
            /\ OnlyAppends(problems, import_json(problems, file))
            /\ file \in NoOpFiles => import_json(problems, file) = problems)
    /\ [][/\ out'.kind = "info"
                => /\ OnlyAppends(problems, problems')
                   /\ skip_offset' = skip_offset
          /\ TickStep
                => \A n \in 1..Cardinality(problems) :
                      /\ RowAt(problems', n).id = RowAt(problems, n).id
                      /\ RowAt(problems', n).latex = RowAt(problems, n).latex
                      /\ RowAt(problems', n).source = RowAt(problems, n).source
          /\ \A file \in NoOpFiles :
                main(file) => problems' = problems /\ skip_offset' = skip_offset]_vars

\* C15 witness: the process started again over a table of three rows, row 1
\* used and the offset at 1, and its import left them so.
C15_Witness ==
    /\ out.kind = "info"
    /\ out.total = 3
    /\ out.skip = 1
    /\ UsedIds(problems) = {1}
    /\ skip_offset = 1

\* C16: the next logical index is never more than one past the end of the
\* table: used + 1 + offset <= total + 1.
C16_IndexAtMostOnePast ==
    used_problems_count(problems) + 1 + skip_offset <= total_problems_count(problems) + 1

\* C16 witness: after "!skip 3" over three rows and the delivery of #3 the
\* index stands at 4, one past the end.
C16_Witness ==
    /\ Cardinality(problems) = 3
    /\ UsedIds(problems) = {3}
    /\ skip_offset = 2
    /\ out.kind = "problem"

\* C17: the persisted offset is a natural number.
C17_OffsetNonNegative == skip_offset \in Nat

\* C17 witness: with row 1 used, "!skip 2" was accepted and stored the
\* smallest offset, 0, over the offset 1 of an earlier "!skip 3".
C17_Witness ==
    /\ out.kind = "configured"
    /\ out.n = 2
    /\ out.usados = 1
    /\ skip_offset = 0
    /\ UsedIds(problems) = {3}

\* positions of daily_problem() between import_json() and mark_used()
TickSection == {"count", "pick", "mark"}

\* positions of on_message() between the range check and set_skip_offset()
SkipSection == {"read", "write"}

\* the step of daily_problem() that marks the selected row
MarkStep == selector.pc = "mark" /\ selector'.pc = "send"

\* the step of on_message() that persists the offset
PersistStep == handler.pc = "write" /\ handler'.pc = "idle" /\ out'.kind = "configured"

\* C13: the daily selector is a two-state machine.  Every cycle a tick starts
\* returns to idle, whichever way it ends (empty store, all used, index beyond
\* the total, problem sent); a cycle starts only from idle, so cycles never
\* overlap; and one cycle marks at most one problem used.
C13_TwoStateSelector ==
    /\ (selector.pc # "idle") ~> (selector.pc = "idle")
    /\ \A kind \in {"no_problems", "all_used", "not_available", "problem"} :
         (selector.pc = "send" /\ out.kind = kind) ~> (selector = SelectorIdle)
    /\ [][ /\ TickStep => selector.pc = "idle" /\ selector'.pc = "fetch"
           /\ (selector.pc = "idle" /\ selector'.pc # "idle") => TickStep
           /\ selector'.marks <= 1
           /\ (selector'.pc # "idle" /\ ~TickStep) => selector'.marks >= selector.marks
           /\ UsedIds(problems') # UsedIds(problems) =>
                /\ MarkStep
                /\ selector.marks = 0 /\ selector'.marks = 1
                /\ Cardinality(UsedIds(problems')) = Cardinality(UsedIds(problems)) + 1
         ]_vars

C13_Witness ==
    /\ selector = [pc |-> "send", marks |-> 1]
    /\ out.kind = "problem"
    /\ out.encabezado = 3
    /\ UsedIds(problems) = {1, 3}
    /\ skip_offset = 1

\* C14: the store section of a tick and the store section of a !skip handler
\* never interleave.  While one coroutine is inside its section the other one
\* does not move and the tables it has read do not change; the offset a
\* handler persists satisfies used + 1 + offset = n for the used count at the
\* moment of the write; and a tick marks the row at the position used + 1 +
\* offset of the tables as they are at the moment of the mark.
C14_SectionsAtomic ==
    /\ [](~(selector.pc \in TickSection /\ handler.pc \in SkipSection))
    /\ [](handler.pc = "write" =>
            /\ handler.usados = used_problems_count(problems)
            /\ handler.n \in 1..total_problems_count(problems))
    /\ [](selector.pc = "mark" =>
            /\ selector.logical_index = used_problems_count(problems) + 1 + skip_offset
            /\ selector.pid = RowAt(problems, selector.logical_index).id)
    /\ [][ /\ PersistStep =>
                used_problems_count(problems') + 1 + skip_offset' = handler.n
           /\ MarkStep =>
                /\ UsedIds(problems') = UsedIds(problems) \cup {selector.pid}
                /\ out'.encabezado = used_problems_count(problems) + 1 + skip_offset
                /\ out'.mensaje = RowAt(problems, out'.encabezado).latex
           /\ selector.pc \in TickSection =>
                handler' = handler /\ skip_offset' = skip_offset
           /\ handler.pc \in SkipSection =>
                selector' = selector /\ problems' = problems
         ]_vars

C14_Witness ==
    /\ selector.pc = "fetch"
    /\ handler = HandlerIdle
    /\ out.kind = "configured"
    /\ out.n = 3
    /\ out.usados = 1
    /\ skip_offset = 1
    /\ UsedIds(problems) = {2}

====
